---- MODULE Spec2Model ----
(***************************************************************************)
(* prime_factorization.py: sieve_of_eratosthenes, factorize, pollard_rho   *)
(* and the command-line entry point, as a state machine over an explicit   *)
(* call stack.  One action per statement group of the source; a frame is a *)
(* record holding the function's locals and its position (pc).             *)
(*                                                                         *)
(* Python values are records [kind, val]: a list is kind "list" with the   *)
(* sequence of its elements, a str is kind "str" with the sequence of its  *)
(* characters.                                                             *)
(***************************************************************************)
EXTENDS Integers, Sequences, FiniteSets, TLC

VARIABLES
    entry,      \* which function the run starts in
    arg,        \* the integer passed to a directly called function
    argv,       \* sys.argv[1] of a command-line run, a sequence of characters
    stack,      \* the call stack, innermost frame last
    ret,        \* the value returned by the call that returned last
    exc,        \* the exception in flight, "none" if there is none
    out,        \* the lines printed to standard output
    exitcode,   \* the process exit status once status = "exited", -1 before
    status      \* "running", "returned", "raised" or "exited"

vars == << entry, arg, argv, stack, ret, exc, out, exitcode, status >>

----------------------------------------------------------------------------
(* Bounds of the model *)

\* factorize and pollard_rho are called directly with 2..MaxN (pollard_rho also with 1)
MaxN == 300

\* sieve_of_eratosthenes is called directly with -MaxNeg..MaxLimit
MaxLimit == 60

MaxNeg == 2

\* the command-line argument has at most MaxArgLen characters
MaxArgLen == 3

\* the characters a command-line argument is made of
Alphabet == { "-", " ", "_", "0", "1", "3", "5", "7", "a" }

----------------------------------------------------------------------------
(* Values *)

PyList(s) == [kind |-> "list", val |-> s]

PyStr(s) == [kind |-> "str", val |-> s]

None == [kind |-> "none", val |-> << >>]

\* the str factorize returns when the factor count is not 2
ErrorMsg ==
    << "F", "e", "h", "l", "e", "r", ":", " ", "D", "i", "e", " ", "Z", "a",
       "h", "l", " ", "h", "a", "t", " ", "k", "e", "i", "n", "e", " ", "e",
       "i", "n", "d", "e", "u", "t", "i", "g", "e", " ", "F", "a", "k", "t",
       "o", "r", "i", "s", "i", "e", "r", "u", "n", "g", " ", "i", "n", " ",
       "2", " ", "P", "r", "i", "m", "z", "a", "h", "l", "e", "n", "." >>

\* the str the entry point prints for an argument that is no integer > 1
ValidMsg ==
    << "P", "l", "e", "a", "s", "e", " ", "s", "u", "b", "m", "i", "t", " ",
       "a", " ", "v", "a", "l", "i", "d", " ", "n", "u", "m", "b", "e", "r" >>

----------------------------------------------------------------------------
(* Library functions the source calls *)

\* int(math.sqrt(n)) for n >= 0: the floor of the square root (the float
\* square root is exact to the integer part on the range the model draws from)
ISqrt(n) == CHOOSE r \in 0..n : r * r <= n /\ (r + 1) * (r + 1) > n

\* abs(v)
Abs(v) == IF v < 0 THEN -v ELSE v

\* math.gcd(a, b) for a, b >= 0, by Euclid's algorithm; gcd(0, b) = b
RECURSIVE Gcd(_, _)
Gcd(a, b) == IF b = 0 THEN a ELSE Gcd(b, a % b)

\* the + of two values: list + list and str + str concatenate, a list and
\* a str do not add (TypeError)
CanAdd(a, b) == a.kind = b.kind

PyAdd(a, b) == [kind |-> a.kind, val |-> a.val \o b.val]

----------------------------------------------------------------------------
(* The call stack *)

Top == stack[Len(stack)]

At(fn, pc) == 
    /\ status = "running"
    /\ exc = "none"
    /\ stack # << >>
    /\ Top.fn = fn
    /\ Top.pc = pc

SetTop(f) == [stack EXCEPT ![Len(stack)] = f]

\* the running function moves on within its own frame
Step(f) ==
    /\ stack' = SetTop(f)
    /\ UNCHANGED << entry, arg, argv, ret, exc, out, exitcode, status >>

\* the running function, left in frame f, calls the function of frame g
Call(f, g) ==
    /\ stack' = Append(SetTop(f), g)
    /\ UNCHANGED << entry, arg, argv, ret, exc, out, exitcode, status >>

\* the running function returns v to its caller
Return(v) ==
    /\ stack' = SubSeq(stack, 1, Len(stack) - 1)
    /\ ret' = v
    /\ status' = IF Len(stack) = 1 THEN "returned" ELSE status
    /\ UNCHANGED << entry, arg, argv, exc, out, exitcode >>

\* the running function raises e
Raise(e) ==
    /\ exc' = e
    /\ UNCHANGED << entry, arg, argv, stack, ret, out, exitcode, status >>

SieveFrame(n) ==
    [fn |-> "sieve_of_eratosthenes", pc |-> "alloc", n |-> n,
     sieve |-> << >>, i |-> 2, j |-> 0, primes |-> << >>]

FactorizeFrame(n) ==
    [fn |-> "factorize", pc |-> "start", n |-> n, orig_n |-> n,
     factors |-> << >>, limit |-> 0, primes |-> << >>, k |-> 1]

MainFrame == [fn |-> "__main__", pc |-> "parse", number |-> 0]

----------------------------------------------------------------------------
(* sieve_of_eratosthenes(n) *)

\* sieve = [True] * (n+1): a list indexed 0..n, empty when n + 1 <= 0
SieveAlloc ==
    /\ At("sieve_of_eratosthenes", "alloc")
    /\ Step([Top EXCEPT !.sieve = [c \in 0..(Top.n) |-> TRUE],
                        !.pc = "clear01"])

\* sieve[0] = sieve[1] = False: an index outside the list raises IndexError
SieveClear01 ==
    /\ At("sieve_of_eratosthenes", "clear01")
    /\ IF 0 \in DOMAIN Top.sieve /\ 1 \in DOMAIN Top.sieve
         THEN Step([Top EXCEPT !.sieve = [Top.sieve EXCEPT ![0] = FALSE, ![1] = FALSE],
                               !.i = 2, !.pc = "outer"])
         ELSE Raise("IndexError")

\* fault: the marking starts one multiple late, at i*i + i
FirstMultiple_SkipsSquare(i) == i * i + i

\* the multiples of i are marked from i*i on
FirstMultiple(i) == i * i

\* for i in range(2, int(math.sqrt(n))+1): if sieve[i]: ...
SieveOuter ==
    /\ At("sieve_of_eratosthenes", "outer")
    /\ IF Top.i < ISqrt(Top.n) + 1
         THEN IF Top.sieve[Top.i]
                THEN Step([Top EXCEPT !.j = FirstMultiple(Top.i), !.pc = "inner"])
                ELSE Step([Top EXCEPT !.i = Top.i + 1])
         ELSE Step([Top EXCEPT !.i = 2, !.primes = << >>, !.pc = "collect"])

\* for j in range(i*i, n+1, i): sieve[j] = False
SieveInner ==
    /\ At("sieve_of_eratosthenes", "inner")
    /\ IF Top.j < Top.n + 1
         THEN Step([Top EXCEPT !.sieve = [Top.sieve EXCEPT ![Top.j] = FALSE],
                               !.j = Top.j + Top.i])
         ELSE Step([Top EXCEPT !.i = Top.i + 1, !.pc = "outer"])

\* fault: the collecting loop is range(2, n), which leaves n itself out
SieveCollect_Exclusive ==
    /\ At("sieve_of_eratosthenes", "collect")
    /\ IF Top.i < Top.n
         THEN Step([Top EXCEPT !.primes = IF Top.sieve[Top.i]
                                            THEN Append(Top.primes, Top.i)
                                            ELSE Top.primes,
                               !.i = Top.i + 1])
         ELSE Return(PyList(Top.primes))

\* primes = []; for i in range(2, n+1): if sieve[i]: primes.append(i);
\* return primes
SieveCollect ==
    /\ At("sieve_of_eratosthenes", "collect")
    /\ IF Top.i < Top.n + 1
         THEN Step([Top EXCEPT !.primes = IF Top.sieve[Top.i]
                                            THEN Append(Top.primes, Top.i)
                                            ELSE Top.primes,
                               !.i = Top.i + 1])
         ELSE Return(PyList(Top.primes))

----------------------------------------------------------------------------
(* factorize(n) *)

\* fault: the trial-division bound is one short
TrialLimit_OneLess(n) == ISqrt(n) - 1

\* limit = int(math.sqrt(n))
TrialLimit(n) == ISqrt(n)

\* orig_n = n; factors = []; limit = int(math.sqrt(n));
\* primes = sieve_of_eratosthenes(limit)   (the call)
FactorizeStart ==
    /\ At("factorize", "start")
    /\ Call([Top EXCEPT !.orig_n = Top.n, !.factors = << >>,
                        !.limit = TrialLimit(Top.n), !.pc = "primes"],
            SieveFrame(TrialLimit(Top.n)))

\* primes = sieve_of_eratosthenes(limit)   (the assignment of the result)
FactorizePrimes ==
    /\ At("factorize", "primes")
    /\ Step([Top EXCEPT !.primes = ret.val, !.k = 1, !.pc = "for"])

\* for p in primes:
FactorizeFor ==
    /\ At("factorize", "for")
    /\ IF Top.k <= Len(Top.primes)
         THEN Step([Top EXCEPT !.pc = "while"])
         ELSE Step([Top EXCEPT !.pc = "residual"])

\* fault: "if" for "while", each prime is divided out at most once
FactorizeWhile_Once ==
    /\ At("factorize", "while")
    /\ LET p == Top.primes[Top.k]
       IN  IF Top.n % p = 0
             THEN Step([Top EXCEPT !.factors = Append(Top.factors, p),
                                   !.n = Top.n \div p, !.pc = "break"])
             ELSE Step([Top EXCEPT !.pc = "break"])

\* while n % p == 0: factors.append(p); n //= p
FactorizeWhile ==
    /\ At("factorize", "while")
    /\ LET p == Top.primes[Top.k]
       IN  IF Top.n % p = 0
             THEN Step([Top EXCEPT !.factors = Append(Top.factors, p),
                                   !.n = Top.n \div p])
             ELSE Step([Top EXCEPT !.pc = "break"])

\* if n == 1: break
FactorizeBreak ==
    /\ At("factorize", "break")
    /\ IF Top.n = 1
         THEN Step([Top EXCEPT !.pc = "residual"])
         ELSE Step([Top EXCEPT !.k = Top.k + 1, !.pc = "for"])

\* fault: the residual test is n >= 1
NeedsRho_AtLeastOne(n) == n >= 1

\* if n > 1:
NeedsRho(n) == n > 1

RhoFrame(n) ==
    [fn |-> "pollard_rho", pc |-> "init", n |-> n, x |-> 0, y |-> 0, d |-> 0,
     left |-> None]

\* if n > 1: factors += pollard_rho(n)   (the call)
FactorizeResidual ==
    /\ At("factorize", "residual")
    /\ IF NeedsRho(Top.n)
         THEN Call([Top EXCEPT !.pc = "extend"], RhoFrame(Top.n))
         ELSE Step([Top EXCEPT !.pc = "gate"])

\* factors += pollard_rho(n)   (the extension: a list is extended by the
\* elements of a list and by the characters of a str alike)
FactorizeExtend ==
    /\ At("factorize", "extend")
    /\ Step([Top EXCEPT !.factors = Top.factors \o ret.val, !.pc = "gate"])

\* fault: the gate accepts two or more factors
Gate_AtLeastTwo(factors) ==
    IF Len(factors) >= 2 THEN PyList(factors) ELSE PyStr(ErrorMsg)

\* fault: the gate accepts up to two factors
Gate_AtMostTwo(factors) ==
    IF Len(factors) <= 2 THEN PyList(factors) ELSE PyStr(ErrorMsg)

\* if len(factors) == 2: return factors, else: return "Fehler: ..."
Gate(factors) ==
    IF Len(factors) = 2 THEN PyList(factors) ELSE PyStr(ErrorMsg)

FactorizeGate ==
    /\ At("factorize", "gate")
    /\ Return(Gate(Top.factors))

----------------------------------------------------------------------------
(* pollard_rho(n) *)

\* the polynomial of the walk: (x*x + 1) % n
F(x, n) == (x * x + 1) % n

\* x = 2; y = 2; d = 1
RhoInit ==
    /\ At("pollard_rho", "init")
    /\ Step([Top EXCEPT !.x = 2, !.y = 2, !.d = 1, !.pc = "loop"])

\* while d == 1: x = f(x); y = f(f(y)); d = math.gcd(abs(x-y), n)
RhoLoop ==
    /\ At("pollard_rho", "loop")
    /\ IF Top.d = 1
         THEN LET x1 == F(Top.x, Top.n)
                  y1 == F(F(Top.y, Top.n), Top.n)
              IN  Step([Top EXCEPT !.x = x1, !.y = y1,
                                   !.d = Gcd(Abs(x1 - y1), Top.n)])
         ELSE Step([Top EXCEPT !.pc = "check"])

\* if d != n: return factorize(d) + factorize(n//d)   (the first call)
\* return [n]
RhoCheck ==
    /\ At("pollard_rho", "check")
    /\ IF Top.d # Top.n
         THEN Call([Top EXCEPT !.pc = "left"], FactorizeFrame(Top.d))
         ELSE Return(PyList(<< Top.n >>))

\* return factorize(d) + factorize(n//d)   (the second call)
RhoLeft ==
    /\ At("pollard_rho", "left")
    /\ Call([Top EXCEPT !.left = ret, !.pc = "right"],
            FactorizeFrame(Top.n \div Top.d))

\* return factorize(d) + factorize(n//d)   (the addition)
RhoRight ==
    /\ At("pollard_rho", "right")
    /\ IF CanAdd(Top.left, ret)
         THEN Return(PyAdd(Top.left, ret))
         ELSE Raise("TypeError")

----------------------------------------------------------------------------
(* int(str) and print *)

Digits == << "0", "1", "2", "3", "4", "5", "6", "7", "8", "9" >>

IsDigit(c) == \E v \in 1..Len(Digits) : Digits[v] = c

DigitVal(c) == (CHOOSE v \in 1..Len(Digits) : Digits[v] = c) - 1

Whitespace == { " " }

RECURSIVE LStrip(_)
LStrip(s) ==
    IF s # << >> /\ Head(s) \in Whitespace THEN LStrip(Tail(s)) ELSE s

RECURSIVE RStrip(_)
RStrip(s) ==
    IF s # << >> /\ s[Len(s)] \in Whitespace
      THEN RStrip(SubSeq(s, 1, Len(s) - 1))
      ELSE s

Strip(s) == RStrip(LStrip(s))

HasSign(s) == s # << >> /\ Head(s) \in { "-", "+" }

Unsigned(s) == IF HasSign(s) THEN Tail(s) ELSE s

\* the digits of an integer literal: at least one digit, single underscores
\* only between digits
ValidDigits(b) ==
    /\ b # << >>
    /\ IsDigit(b[1])
    /\ IsDigit(b[Len(b)])
    /\ \A i \in 1..Len(b) : IsDigit(b[i]) \/ b[i] = "_"
    /\ \A i \in 1..(Len(b) - 1) : ~(b[i] = "_" /\ b[i + 1] = "_")

RECURSIVE DecVal(_)
DecVal(b) ==
    IF b = << >>
      THEN 0
      ELSE LET front == SubSeq(b, 1, Len(b) - 1)
               last == b[Len(b)]
           IN  IF last = "_"
                 THEN DecVal(front)
                 ELSE 10 * DecVal(front) + DigitVal(last)

\* int(s) succeeds
IntOk(s) == ValidDigits(Unsigned(Strip(s)))

\* the value of int(s) when it succeeds
IntVal(s) ==
    LET t == Strip(s)
    IN  IF HasSign(t) /\ Head(t) = "-"
          THEN -DecVal(Unsigned(t))
          ELSE DecVal(Unsigned(t))

\* str(k) of an integer k >= 0
RECURSIVE DecStr(_)
DecStr(k) ==
    IF k < 10
      THEN << Digits[k + 1] >>
      ELSE DecStr(k \div 10) \o << Digits[(k % 10) + 1] >>

RECURSIVE JoinInts(_)
JoinInts(s) ==
    IF s = << >>
      THEN << >>
      ELSE IF Len(s) = 1
             THEN DecStr(s[1])
             ELSE DecStr(s[1]) \o << ",", " " >> \o JoinInts(Tail(s))

\* what print(v) writes: a str as it is, a list of integers as [a, b]
Printed(v) ==
    IF v.kind = "str" THEN v.val ELSE << "[" >> \o JoinInts(v.val) \o << "]" >>

----------------------------------------------------------------------------
(* the command-line entry point *)

\* the process ends with exit status code
Exit(lines, code) ==
    /\ stack' = << >>
    /\ out' = out \o lines
    /\ exitcode' = code
    /\ status' = "exited"

\* fault: the entry point accepts 1
Accepts_AtLeastOne(number) == number >= 1

\* if number > 1:
Accepts(number) == number > 1

\* number = int(args[1]); if number > 1: factors = factorize(number) (the
\* call), else: print("Please submit a valid number")
MainParse ==
    /\ At("__main__", "parse")
    /\ IF ~IntOk(argv)
         THEN Raise("ValueError")
         ELSE IF Accepts(IntVal(argv))
                THEN Call([Top EXCEPT !.number = IntVal(argv), !.pc = "print"],
                          FactorizeFrame(IntVal(argv)))
                ELSE /\ Exit(<< ValidMsg >>, 0)
                     /\ UNCHANGED << entry, arg, argv, ret, exc >>

\* factors = factorize(number); print(factors)
MainPrint ==
    /\ At("__main__", "print")
    /\ Exit(<< Printed(ret) >>, 0)
    /\ UNCHANGED << entry, arg, argv, ret, exc >>

\* the status exit(1) in the except clause ends the process with
HandlerStatus == 1

\* An exception in flight leaves the innermost frame.  In the entry point
\* "except ValueError" prints the message and exits with status 1; any
\* other exception there ends the process with a traceback and status 1.
\* An exception leaving a directly called function reaches its caller.
Propagate ==
    /\ status = "running"
    /\ exc # "none"
    /\ stack # << >>
    /\ IF Top.fn = "__main__"
         THEN IF exc = "ValueError"
                THEN /\ Exit(<< ValidMsg >>, HandlerStatus)
                     /\ exc' = "none"
                     /\ UNCHANGED << entry, arg, argv, ret >>
                ELSE /\ Exit(<< >>, 1)
                     /\ UNCHANGED << entry, arg, argv, ret, exc >>
         ELSE /\ stack' = SubSeq(stack, 1, Len(stack) - 1)
              /\ status' = IF Len(stack) = 1 THEN "raised" ELSE status
              /\ UNCHANGED << entry, arg, argv, ret, exc, out, exitcode >>

----------------------------------------------------------------------------
(* Specification *)

Strings == UNION { [1..k -> Alphabet] : k \in 0..MaxArgLen }

Start(e, a, s, f) ==
    /\ entry = e
    /\ arg = a
    /\ argv = s
    /\ stack = << f >>
    /\ ret = None
    /\ exc = "none"
    /\ out = << >>
    /\ exitcode = -1
    /\ status = "running"

Init ==
    \/ \E n \in (-MaxNeg)..MaxLimit :
           Start("sieve_of_eratosthenes", n, << >>, SieveFrame(n))
    \/ \E n \in 2..MaxN : Start("factorize", n, << >>, FactorizeFrame(n))
    \/ \E n \in 1..MaxN : Start("pollard_rho", n, << >>, RhoFrame(n))
    \/ \E s \in Strings : Start("__main__", 0, s, MainFrame)

Next ==
    \/ SieveAlloc
    \/ SieveClear01
    \/ SieveOuter
    \/ SieveInner
    \/ SieveCollect
    \/ FactorizeStart
    \/ FactorizePrimes
    \/ FactorizeFor
    \/ FactorizeWhile
    \/ FactorizeBreak
    \/ FactorizeResidual
    \/ FactorizeExtend
    \/ FactorizeGate
    \/ RhoInit
    \/ RhoLoop
    \/ RhoCheck
    \/ RhoLeft
    \/ RhoRight
    \/ MainParse
    \/ MainPrint
    \/ Propagate

Spec == Init /\ [][Next]_vars

\* the interpreter always executes the next statement
FairSpec == Spec /\ WF_vars(Next)

----------------------------------------------------------------------------
(* Vocabulary of the properties *)

IsPrime(p) == p >= 2 /\ \A c \in 2..(p - 1) : p % c # 0

RECURSIVE Product(_)
Product(s) == IF s = << >> THEN 1 ELSE Head(s) * Product(Tail(s))

\* the number of prime factors of n >= 1, counted with multiplicity
RECURSIVE Omega(_)
Omega(n) ==
    IF n < 2
      THEN 0
      ELSE LET p == CHOOSE c \in 2..n : n % c = 0 /\ \A b \in 2..(c - 1) : n % b # 0
           IN  1 + Omega(n \div p)

Terminated == status # "running"

\* the run is a direct call factorize(arg)
DirectFactorize == entry = "factorize"

\* the run is a direct call pollard_rho(arg)
DirectRho == entry = "pollard_rho"

\* the run is a direct call sieve_of_eratosthenes(arg)
DirectSieve == entry = "sieve_of_eratosthenes"

\* the run is a command-line run
CommandLine == entry = "__main__"

\* the positions of the stack holding a frame of factorize
FactorizeFrames == { i \in 1..Len(stack) : stack[i].fn = "factorize" }

\* the positions of the stack holding a frame of pollard_rho
RhoFrames == { i \in 1..Len(stack) : stack[i].fn = "pollard_rho" }

\* the pollard_rho frames whose caller is factorize
RhoCalledByFactorize ==
    { i \in RhoFrames : i >= 2 /\ stack[i - 1].fn = "factorize" }

----------------------------------------------------------------------------
(* Properties *)

\* C1: for every n = p*q with p <= q both prime (p = q included),
\* factorize(n) returns the two-element list [p, q].
C1_SemiprimeFactorized ==
    (DirectFactorize /\ Terminated) =>
        \A p \in 2..arg : \A q \in p..arg :
            (IsPrime(p) /\ IsPrime(q) /\ p * q = arg) =>
                (status = "returned" /\ ret = PyList(<< p, q >>))

\* factorize(15) has returned [3, 5]
C1_Witness ==
    /\ DirectFactorize
    /\ arg = 15
    /\ status = "returned"
    /\ ret = PyList(<< 3, 5 >>)

\* C2: for every n > 1, pollard_rho(n) returns a list of primes whose
\* product is n (for composite n as well as prime n).
C2_RhoReturnsPrimeFactors ==
    (DirectRho /\ arg > 1 /\ Terminated) =>
        /\ status = "returned"
        /\ ret.kind = "list"
        /\ \A i \in 1..Len(ret.val) : IsPrime(ret.val[i])
        /\ Product(ret.val) = arg

\* C3: for every limit < 2 (0 and negative bounds included),
\* sieve_of_eratosthenes(limit) returns the empty list and raises nothing.
C3_SieveBelowTwoIsEmpty ==
    (DirectSieve /\ arg < 2 /\ Terminated) =>
        (status = "returned" /\ exc = "none" /\ ret = PyList(<< >>))

\* C4: for every limit >= 2, sieve_of_eratosthenes(limit) returns exactly
\* the primes p with 2 <= p <= limit, each once, in strictly increasing order.
C4_SieveIsThePrimes ==
    (DirectSieve /\ arg >= 2 /\ Terminated) =>
        /\ status = "returned"
        /\ ret.kind = "list"
        /\ \A i \in 1..(Len(ret.val) - 1) : ret.val[i] < ret.val[i + 1]
        /\ { ret.val[i] : i \in 1..Len(ret.val) } = { p \in 2..arg : IsPrime(p) }

\* sieve_of_eratosthenes(10) has returned [2, 3, 5, 7]
C4_Witness ==
    /\ DirectSieve
    /\ arg = 10
    /\ status = "returned"
    /\ ret = PyList(<< 2, 3, 5, 7 >>)

\* C5: whenever factorize(n), n > 1, returns a list, the list has exactly
\* two entries, both are prime and their product is the original n.  Stated
\* of every call of factorize at its return statement, and of the value a
\* direct call has returned.
C5_ReturnedListIsTwoPrimes ==
    /\ \A i \in FactorizeFrames :
           (stack[i].pc = "gate" /\ Gate(stack[i].factors).kind = "list") =>
               LET r == Gate(stack[i].factors).val
               IN  /\ Len(r) = 2
                   /\ IsPrime(r[1])
                   /\ IsPrime(r[2])
                   /\ r[1] * r[2] = stack[i].orig_n
    /\ (DirectFactorize /\ status = "returned" /\ ret.kind = "list") =>
           /\ Len(ret.val) = 2
           /\ IsPrime(ret.val[1])
           /\ IsPrime(ret.val[2])
           /\ ret.val[1] * ret.val[2] = arg

\* factorize(4) has returned the list [2, 2]
C5_Witness ==
    /\ DirectFactorize
    /\ arg = 4
    /\ status = "returned"
    /\ ret.kind = "list"
    /\ ret.val = << 2, 2 >>

\* factorize, at its return statement with a factor list whose length is
\* not 2, returns the failure message to its caller and raises nothing
C6_GateStep ==
    (At("factorize", "gate") /\ Len(Top.factors) # 2) =>
        /\ ret' = PyStr(ErrorMsg)
        /\ exc' = "none"
        /\ stack' = SubSeq(stack, 1, Len(stack) - 1)
        /\ status' \in { "running", "returned" }

\* C6: for every n > 1 whose assembled factor list does not have exactly
\* two entries (n = 30, n = 8, ...), factorize(n) returns the failure
\* message as an ordinary value and raises no exception: every return of
\* factorize with such a list returns the message, and a direct call
\* factorize(n) whose n does not have exactly two prime factors ends
\* returned with the message.
C6_NotTwoFactorsGivesMessage ==
    /\ [][C6_GateStep]_vars
    /\ []((DirectFactorize /\ Terminated /\ Omega(arg) # 2) =>
             (status = "returned" /\ exc = "none" /\ ret = PyStr(ErrorMsg)))

\* factorize(30) has returned the failure message
C6_Witness ==
    /\ DirectFactorize
    /\ arg = 30
    /\ status = "returned"
    /\ ret = PyStr(ErrorMsg)

\* C7: for every prime n, factorize(n) reports the failure: trial division
\* appends nothing, pollard_rho(n) leaves its loop with d = n and returns
\* [n], and the gate returns the failure message.
C7_PrimeReportsFailure ==
    (DirectFactorize /\ IsPrime(arg)) =>
        /\ \A i \in FactorizeFrames :
               /\ i = 1
               /\ stack[i].pc \notin { "gate" } => stack[i].factors = << >>
               /\ stack[i].pc = "gate" => stack[i].factors = << arg >>
        /\ \A i \in RhoFrames :
               /\ stack[i].n = arg
               /\ stack[i].pc \notin { "left", "right" }
               /\ stack[i].pc = "check" => stack[i].d = arg
        /\ At("factorize", "extend") => ret = PyList(<< arg >>)
        /\ Terminated => (status = "returned" /\ ret = PyStr(ErrorMsg))

\* factorize(7) has returned the failure message
C7_Witness ==
    /\ DirectFactorize
    /\ arg = 7
    /\ status = "returned"
    /\ ret = PyStr(ErrorMsg)

\* C8: the entry point has exactly three outcomes.  An argument that parses
\* as an integer > 1: factorize(number) is run and its result printed, exit
\* status 0.  An integer <= 1: the message is printed, factorize is never
\* called, exit status 0.  No integer: the message is printed, factorize is
\* never called, exit status 1.
C8_EntryPointOutcomes ==
    CommandLine =>
        /\ (~IntOk(argv) \/ IntVal(argv) <= 1) => FactorizeFrames = { }
        /\ (Len(stack) >= 2) =>
               /\ stack[2].fn = "factorize"
               /\ stack[2].orig_n = IntVal(argv)
        /\ At("__main__", "print") =>
               \/ ret = PyStr(ErrorMsg)
               \/ /\ ret.kind = "list"
                  /\ Len(ret.val) = 2
                  /\ Product(ret.val) = IntVal(argv)
        /\ Terminated =>
               /\ status = "exited"
               /\ Len(out) = 1
               /\ IF ~IntOk(argv)
                    THEN out[1] = ValidMsg /\ exitcode = 1
                    ELSE IF IntVal(argv) <= 1
                           THEN out[1] = ValidMsg /\ exitcode = 0
                           ELSE out[1] = Printed(ret) /\ exitcode = 0

\* the run with argument "15" has printed [3, 5] and exited with status 0
C8_Witness ==
    /\ CommandLine
    /\ argv = << "1", "5" >>
    /\ status = "exited"
    /\ exitcode = 0
    /\ out = << << "[", "3", ",", " ", "5", "]" >> >>

\* no call passes 1 to pollard_rho, other than a direct call pollard_rho(1)
C9_RhoArgumentAtLeastTwo ==
    \A i \in RhoFrames : stack[i].n >= 2 \/ (DirectRho /\ arg = 1 /\ i = 1)

\* C9: for every n >= 2 the cycle loop of pollard_rho(n) ends after finitely
\* many iterations with some d # 1, and factorize(n) terminates, as does the
\* command-line run; the loop runs forever only for n = 1, which no call
\* made by factorize or by pollard_rho's recursion passes.
C9_RhoLoopTerminates ==
    /\ [](C9_RhoArgumentAtLeastTwo)
    /\ [](\A i \in RhoFrames : stack[i].pc = "check" => stack[i].d # 1)
    /\ []((DirectRho /\ arg = 1) => ~Terminated)
    /\ ((DirectRho /\ arg >= 2) ~> Terminated)
    /\ (DirectFactorize ~> Terminated)
    /\ (CommandLine ~> Terminated)

\* the loop of pollard_rho(113), called by factorize(113), has ended with
\* the walkers equal and d = 113
C9_Witness ==
    /\ DirectFactorize
    /\ arg = 113
    /\ At("pollard_rho", "check")
    /\ Top.n = 113
    /\ Top.x = Top.y
    /\ Top.d = 113

\* C10: in factorize(n), with limit = floor(sqrt(n)) computed once from the
\* original n, the product of the accumulated factors times the working
\* value is the original n throughout the trial-division loop; when the loop
\* ends the residual is 1 or a prime greater than limit; so pollard_rho
\* called from factorize receives a prime, returns [residual] and never
\* takes its recursive branch.
C10_ResidualIsOneOrPrime ==
    /\ \A i \in FactorizeFrames :
           LET f == stack[i]
           IN  /\ f.pc # "start" =>
                      /\ f.limit * f.limit <= f.orig_n
                      /\ (f.limit + 1) * (f.limit + 1) > f.orig_n
               /\ f.pc \in { "primes", "for", "while", "break", "residual" } =>
                      Product(f.factors) * f.n = f.orig_n
               /\ f.pc = "residual" =>
                      (f.n = 1 \/ (IsPrime(f.n) /\ f.n > f.limit))
    /\ \A i \in RhoCalledByFactorize :
           /\ IsPrime(stack[i].n)
           /\ stack[i].pc \notin { "left", "right" }
           /\ stack[i].pc = "check" => stack[i].d = stack[i].n
    /\ At("factorize", "extend") => ret = PyList(<< Top.n >>)

\* factorize(91) has ended its trial division with the factor 7 and the
\* residual 13, a prime above limit = 9
C10_Witness ==
    /\ DirectFactorize
    /\ arg = 91
    /\ At("factorize", "residual")
    /\ Top.factors = << 7 >>
    /\ Top.n = 13
    /\ Top.limit = 9

====
